---- MODULE Spec2Model ----
(***************************************************************************)
(* A model of ggce/executors/petsc4py/base.py (class MassiveSolver).       *)
(*                                                                         *)
(* Spec     : W MPI processes construct a MassiveSolver and run spectrum:  *)
(*            brigade split, job chunking, the per-job collective          *)
(*            assemblies and solve, the two barriers, the gather to global *)
(*            rank 0 and the exit() that follows it.                       *)
(* SpecInit : __init__ alone, with the communicator, the system and the    *)
(*            root each passed or missing.                                 *)
(* SpecFail : Spec, with a job whose solve may raise.                      *)
(* SpecAsm  : the workers of one brigade run _scaffold on one list of COO  *)
(*            triplets, then the linear solve and check_conv_manual.       *)
(* SpecDisk : the workers take the input-from-disk path.                   *)
(* SpecEq   : _sparse_matrix_from_equations is called again and again on   *)
(*            one system of equations.                                     *)
(***************************************************************************)
EXTENDS Integers, Sequences, FiniteSets, TLC

\* ------------------------------------------------------------------ bounds
MaxWorld == 5       \* world sizes 1..MaxWorld
MaxK == 2           \* length of the k list
MaxW == 2           \* length of the w list
MaxN == 2           \* _linsys_size, the dimension of the linear system
MaxWorkers == 2     \* size of the brigade communicator in SpecAsm
MaxCoo == 2         \* number of COO triplets
MaxBosons == 1      \* total_bosons: the equations are for 0..MaxBosons bosons
MaxTerms == 1       \* length of an equation's _terms_list

VARIABLES
    world_size,          \* self._mpi_comm.Get_size()
    _brigade_size,       \* self._brigade_size: None or <<B>>
    k, w,                \* the k and w lists handed to spectrum
    pc,                  \* pc[r]: where process r is
    _mpi_comm_brigadier, \* [r]: the brigade communicator as r sees it
    jobs_on_brigade,     \* [r]: local variable jobs_on_brigade of spectrum
    s,                   \* [r]: local variable s of spectrum
    coll,                \* [r]: history of the collective calls r has entered
    all_results,         \* what gather returned at global rank 0 (None before)
    _mpi_comm,           \* self._mpi_comm: None or <<communicator>>
    _system, _root,      \* self._system, self._root as passed: None or <<v>>
    init_trace,          \* [r]: the steps of __init__ r has carried out
    log,                 \* [r]: what check_conv_manual has logged on r
    failing_job          \* the job whose solve raises, as <<job>> (None: no job)

VARIABLES
    _linsys_size,        \* self._linsys_size
    comm_size,           \* size of the brigade communicator the job runs on
    row_ind, col_ind, dat, \* the COO triplets, three parallel lists
    apc,                 \* apc[p]: where worker p is in _scaffold
    _rstart, _rend,      \* [p]: self._rstart, self._rend
    diag_nnz, offdiag_nnz, \* [p]: the arrays handed to setPreallocationNNZ
    ii,                  \* [p]: index of the insertion loop (from 1)
    _mat_X,              \* the distributed matrix: value stored at <<row, col>>
    inserted,            \* [p]: the triplets (by index) p called setValues for
    asm_job,             \* the (k, w) the system is assembled for
    _vector_b,           \* the distributed right-hand side: value at each index
    _vector_x,           \* the solution the linear solve left: None or <<x>>
    tol_excess           \* [p]: self.tol_excess, None or <<its sign>>

VARIABLES
    equations,           \* self._system.equations: [n_bosons] a list of equations
    _basis,              \* self._basis: term identifier -> index in the system
    row_dict,            \* local variable row_dict of the builder, as last left
    first_coo            \* <<(k, w), lists returned>> of the first call for each (k, w)

eqVars == <<equations, _basis, row_dict, first_coo>>

asmVars == <<_linsys_size, comm_size, row_ind, col_ind, dat, apc, _rstart, _rend,
             diag_nnz, offdiag_nnz, ii, _mat_X, inserted,
             asm_job, _vector_b, _vector_x, tol_excess>>

\* What the matrix is assembled from; no action assigns to it.
cooVars == <<_linsys_size, comm_size, row_ind, col_ind, dat, asm_job>>

mainVars == <<world_size, _brigade_size, k, w, pc, _mpi_comm_brigadier,
              jobs_on_brigade, s, coll, all_results,
              _mpi_comm, _system, _root, init_trace, log, failing_job>>

\* What __init__ and spectrum are called with; no action assigns to it.
argVars == <<world_size, _brigade_size, k, w, _mpi_comm, _system, _root, failing_job>>

\* Python's None; an optional value v is carried as <<v>>.
None == << >>

Ranks == 0 .. (world_size - 1)

\* ------------------------------------------------------------ properties
mpi_rank(r) == IF _mpi_comm # None THEN r ELSE 0

mpi_world_size == IF _mpi_comm # None THEN world_size ELSE 1

mpi_brigade(r) ==
    IF _brigade_size # None THEN mpi_rank(r) \div _brigade_size[1] ELSE 0

brigade_size ==
    IF _brigade_size # None THEN _brigade_size[1] ELSE world_size

brigades_of_ranks ==
    IF _brigade_size # None THEN world_size \div _brigade_size[1] ELSE world_size

brigades ==
    IF _brigade_size # None THEN world_size \div _brigade_size[1] ELSE 1

brigade_rank(r) ==
    IF _brigade_size # None THEN _mpi_comm_brigadier[r].rank ELSE mpi_rank(r)

\* ------------------------------------------------------------ communicators
\* A communicator handle as one process sees it: which communicator it is,
\* its group, and the process's rank in it.
WorldComm(r) == [id |-> "world", members |-> Ranks, rank |-> r]

NoComm == [id |-> "unset", members |-> {}, rank |-> 0]

\* Split(color, key): the processes with the caller's color, ranked by key
\* (ties by rank in the parent communicator).
split_color(r) == mpi_brigade(r)

split_key_reversed(r) == world_size - mpi_rank(r)

split_key(r) == mpi_rank(r)

Split(r) ==
    LET group == {q \in Ranks : split_color(q) = split_color(r)}
        before == {q \in group : \/ split_key(q) < split_key(r)
                                 \/ (split_key(q) = split_key(r) /\ q < r)}
    IN  [id |-> "brigade", members |-> group, rank |-> Cardinality(before)]

\* Collective calls: a process enters its n-th collective on a communicator
\* and blocks in it until every member of the group has entered its n-th.
\* coll[r].world / coll[r].brigade list the kinds of the collectives r has
\* entered on the world communicator / on the communicator Split returned.
NoCalls == [world |-> << >>, brigade |-> << >>]

Enter(r, kinds, comm) ==
    IF comm.id = "world"
    THEN [coll[r] EXCEPT !.world = @ \o kinds]
    ELSE [coll[r] EXCEPT !.brigade = @ \o kinds]

CanLeave(r, comm) ==
    IF comm.id = "world"
    THEN \A q \in comm.members : Len(coll[q].world) >= Len(coll[r].world)
    ELSE \A q \in comm.members : Len(coll[q].brigade) >= Len(coll[r].brigade)

\* ------------------------------------------------------------ job scheduling
\* jobs = [(_k, _w) for _k in k for _w in w]: for each _k in turn, the
\* pairs of _k with each _w in turn.
RECURSIVE Pairs(_, _)
Pairs(ks, ws) ==
    IF ks = << >> THEN << >>
    ELSE [j \in 1 .. Len(ws) |-> << Head(ks), ws[j] >>] \o Pairs(Tail(ks), ws)

Jobs_w_outer ==
    [i \in 1 .. (Len(k) * Len(w)) |->
        << k[((i - 1) % Len(k)) + 1], w[((i - 1) \div Len(k)) + 1] >>]

Jobs == Pairs(k, w)

\* ggce.utils.utils.chunk_jobs: job i (counted from 0) goes to brigade
\* i mod brigade_count, each brigade keeping its jobs in list order.
chunk_jobs(jobs, count, index) ==
    LET mine == {i \in 1 .. Len(jobs) : (i - 1) % count = index}
    IN  [m \in 1 .. Cardinality(mine) |-> jobs[index + 1 + (m - 1) * count]]

get_jobs_next_brigade(jobs, r) ==
    IF brigades = 1 THEN jobs ELSE chunk_jobs(jobs, brigades, mpi_brigade(r) + 1)

get_jobs_by_brigade_rank(jobs, r) ==
    IF brigades = 1 THEN jobs ELSE chunk_jobs(jobs, brigade_size, brigade_rank(r))

get_jobs_by_rank(jobs, r) ==
    IF world_size = 1 THEN jobs ELSE chunk_jobs(jobs, world_size, mpi_rank(r))

get_jobs_on_this_brigade(jobs, r) ==
    IF brigades = 1 THEN jobs ELSE chunk_jobs(jobs, brigades, mpi_brigade(r))

\* ------------------------------------------------------------ solve
\* The value and the metadata solve(k, w, eta) returns for one grid point.
G(kk, ww) == <<"G", kk, ww>>

Meta(kk, ww) == <<"meta", kk, ww>>

solve(kk, ww) == << G(kk, ww), Meta(kk, ww) >>

\* ------------------------------------------------------------ aggregation
\* The statements of spectrum that follow exit(), as functions of the
\* gathered list (all_results[q + 1] is what rank q sent).
Dedup_by_index(all) ==
    IF brigade_size > 1
    THEN [n \in 1 .. brigades |-> all[n]]
    ELSE all

Dedup(all) ==
    IF brigade_size > 1
    THEN [n \in 1 .. brigades |-> all[(n - 1) * brigade_size + 1]]
    ELSE all

RECURSIVE Flatten(_)
Flatten(results) ==
    IF results = << >> THEN << >> ELSE Head(results) \o Flatten(Tail(results))

Values(flat) == [i \in 1 .. Len(flat) |-> flat[i][1]]

Metas(flat) == [i \in 1 .. Len(flat) |-> flat[i][2]]

Reshape(seq, nk, nw) ==
    IF Len(seq) = nk * nw
    THEN [i \in 1 .. nk |-> [j \in 1 .. nw |-> seq[(i - 1) * nw + j]]]
    ELSE "ValueError"

\* ------------------------------------------------------------ initial state
\* No process of the world is running.
MainIdle ==
    /\ world_size = 0
    /\ _brigade_size = None
    /\ k = << >> /\ w = << >>
    /\ pc = << >>
    /\ _mpi_comm_brigadier = << >>
    /\ jobs_on_brigade = << >>
    /\ s = << >>
    /\ coll = << >>
    /\ all_results = None
    /\ _mpi_comm = None /\ _system = None /\ _root = None
    /\ init_trace = << >>
    /\ log = << >>
    /\ failing_job = None

\* No system of equations is at hand.
EqIdle ==
    /\ equations = << >>
    /\ _basis = << >>
    /\ row_dict = << >>
    /\ first_coo = << >>

\* No job is being assembled.
AsmIdle ==
    /\ _linsys_size = 0
    /\ comm_size = 0
    /\ row_ind = << >> /\ col_ind = << >> /\ dat = << >>
    /\ apc = << >>
    /\ _rstart = << >> /\ _rend = << >>
    /\ diag_nnz = << >> /\ offdiag_nnz = << >>
    /\ ii = << >>
    /\ _mat_X = << >>
    /\ inserted = << >>
    /\ asm_job = << >>
    /\ _vector_b = << >>
    /\ _vector_x = None
    /\ tol_excess = << >>

\* Every process is given the same brigade_size (or none) and the same k and
\* w lists. A brigade is made of processes of the world: 1 <= brigade_size <= W.
Topology ==
    /\ world_size \in 1 .. MaxWorld
    /\ _brigade_size \in {None} \cup {<<b>> : b \in 1 .. world_size}

Inputs ==
    /\ Topology
    /\ k \in {[i \in 1 .. n |-> i - 1] : n \in 1 .. MaxK}
    /\ w \in {[j \in 1 .. n |-> j + 1] : n \in 1 .. MaxW}

\* No process has started __init__.
Fresh ==
    /\ pc = [r \in Ranks |-> "init"]
    /\ _mpi_comm_brigadier = [r \in Ranks |-> NoComm]
    /\ jobs_on_brigade = [r \in Ranks |-> << >>]
    /\ s = [r \in Ranks |-> << >>]
    /\ coll = [r \in Ranks |-> NoCalls]
    /\ all_results = None
    /\ init_trace = [r \in Ranks |-> << >>]
    /\ log = [r \in Ranks |-> << >>]

\* A run with a communicator, a system and a root, in which no solve raises.
Init ==
    /\ Inputs
    /\ _mpi_comm = <<"MPI_COMM">>
    /\ _system = <<"system">>
    /\ _root = <<"root">>
    /\ failing_job = None
    /\ Fresh
    /\ AsmIdle
    /\ EqIdle

\* ------------------------------------------------------------ construction
\* logger.critical: a fatal configuration error, the process stops.
logger_critical(r) == pc' = [pc EXCEPT ![r] = "fatal"]

\* assert (1 - self.mpi_world_size % self._brigade_size)
SplitAssertion == (1 - (mpi_world_size % _brigade_size[1])) # 0

split_into_brigades(r) ==
    IF SplitAssertion
    THEN /\ pc' = [pc EXCEPT ![r] = "Split"]
         /\ coll' = [coll EXCEPT ![r] = Enter(r, <<"Split">>, WorldComm(r))]
         /\ init_trace' = [init_trace EXCEPT ![r] = Append(@, "Split")]
    ELSE /\ logger_critical(r)
         /\ UNCHANGED <<coll, init_trace>>

\* if self._system is None and self._root is None
MissingBoth == _system = None /\ _root = None

\* __init__ from the system/root test on: the results directory, then
\* System.from_checkpoint when no system was passed (the name System is
\* bound nowhere in the module), then self._system.checkpoint().
InitRest(r) ==
    LET mkdir == IF _root # None THEN <<"mkdir">> ELSE << >>
    IN  IF MissingBoth
        THEN /\ logger_critical(r)
             /\ UNCHANGED init_trace
        ELSE IF _system = None
        THEN /\ pc' = [pc EXCEPT ![r] = "NameError"]
             /\ init_trace' = [init_trace EXCEPT ![r] = @ \o mkdir]
        ELSE /\ pc' = [pc EXCEPT ![r] = "constructed"]
             /\ init_trace' = [init_trace EXCEPT ![r] = @ \o mkdir \o <<"checkpoint">>]

\* __init__ up to the brigade split.
InitSplit(r) ==
    /\ pc[r] = "init"
    /\ _brigade_size # None
    /\ IF _mpi_comm = None
       THEN /\ logger_critical(r)
            /\ UNCHANGED <<coll, init_trace>>
       ELSE split_into_brigades(r)
    /\ UNCHANGED <<asmVars, eqVars>>
    /\ UNCHANGED argVars
    /\ UNCHANGED <<_mpi_comm_brigadier, jobs_on_brigade, s, all_results, log>>

\* __init__ when no brigade size is given: it runs to its end.
InitNoSplit(r) ==
    /\ pc[r] = "init"
    /\ _brigade_size = None
    /\ IF _mpi_comm = None
       THEN /\ logger_critical(r)
            /\ UNCHANGED <<_mpi_comm_brigadier, init_trace>>
       ELSE /\ _mpi_comm_brigadier' = [_mpi_comm_brigadier EXCEPT ![r] = WorldComm(r)]
            /\ InitRest(r)
    /\ UNCHANGED <<asmVars, eqVars>>
    /\ UNCHANGED argVars
    /\ UNCHANGED <<jobs_on_brigade, s, coll, all_results, log>>

\* Split returns once every process of the world has called it; __init__
\* then runs to its end.
SplitReturn(r) ==
    /\ pc[r] = "Split"
    /\ CanLeave(r, WorldComm(r))
    /\ _mpi_comm_brigadier' = [_mpi_comm_brigadier EXCEPT ![r] = Split(r)]
    /\ InitRest(r)
    /\ UNCHANGED <<asmVars, eqVars>>
    /\ UNCHANGED argVars
    /\ UNCHANGED <<jobs_on_brigade, s, coll, all_results, log>>

\* ------------------------------------------------------------ spectrum
\* for (_k, _w) in jobs_on_brigade: the next iteration calls solve; after
\* the last one the process prints s and goes to the brigade barrier.
\* solve(k, w, eta) is collective over the brigade: it runs _scaffold, whose
\* matrix and vector assemblies are unconditional, and the linear solve.
\* The process is in "solve" until every rank of its brigade has called it.
SolveCollectives == <<"mat_assembly", "vec_assembly", "linear_solve">>

LoopStep_one_barrier(r, done, todo) ==
    IF Len(done) < Len(todo)
    THEN /\ pc' = [pc EXCEPT ![r] = "solve"]
         /\ coll' = [coll EXCEPT ![r] = Enter(r, SolveCollectives, _mpi_comm_brigadier[r])]
    ELSE /\ pc' = [pc EXCEPT ![r] = "barrier_world"]
         /\ coll' = [coll EXCEPT ![r] = Enter(r, <<"barrier">>, WorldComm(r))]

LoopStep(r, done, todo) ==
    IF Len(done) < Len(todo)
    THEN /\ pc' = [pc EXCEPT ![r] = "solve"]
         /\ coll' = [coll EXCEPT ![r] = Enter(r, SolveCollectives, _mpi_comm_brigadier[r])]
    ELSE /\ pc' = [pc EXCEPT ![r] = "barrier_brigade"]
         /\ coll' = [coll EXCEPT ![r] = Enter(r, <<"barrier">>, _mpi_comm_brigadier[r])]

SpectrumStart(r) ==
    /\ pc[r] = "constructed"
    /\ jobs_on_brigade' =
          [jobs_on_brigade EXCEPT ![r] = get_jobs_on_this_brigade(Jobs, r)]
    /\ s' = [s EXCEPT ![r] = << >>]
    /\ LoopStep(r, << >>, jobs_on_brigade'[r])
    /\ UNCHANGED <<asmVars, eqVars>>
    /\ UNCHANGED argVars
    /\ UNCHANGED <<_mpi_comm_brigadier, all_results, init_trace, log>>

\* The sign of res_norm - rtol * b_norm for the solution of one job; it is
\* the same on every rank of the brigade.
residual_excess(kk, ww) == IF (kk + ww) % 2 = 0 THEN 1 ELSE 0 - 1

\* check_conv_manual, its logging part: if self.mpi_rank == 0, a warning
\* when tol_excess > 0 and a debug line otherwise.
logs(r) == mpi_rank(r) = 0

check_conv_manual(r, job) ==
    IF logs(r)
    THEN Append(log[r], <<job, IF residual_excess(job[1], job[2]) > 0
                                THEN "warning" ELSE "pass">>)
    ELSE log[r]

\* solve returns, having checked convergence; s.append(...); next iteration
\* or the brigade barrier. When solve raises instead, the exception leaves
\* spectrum, which has no handler for it, and the process ends.
Solved(r) ==
    /\ pc[r] = "solve"
    /\ CanLeave(r, _mpi_comm_brigadier[r])
    /\ LET job == jobs_on_brigade[r][Len(s[r]) + 1]
       IN  IF failing_job = <<job>>
           THEN /\ pc' = [pc EXCEPT ![r] = "raised"]
                /\ UNCHANGED <<s, coll, log>>
           ELSE /\ s' = [s EXCEPT ![r] = Append(@, solve(job[1], job[2]))]
                /\ log' = [log EXCEPT ![r] = check_conv_manual(r, job)]
                /\ LoopStep(r, s'[r], jobs_on_brigade[r])
    /\ UNCHANGED <<asmVars, eqVars>>
    /\ UNCHANGED argVars
    /\ UNCHANGED <<_mpi_comm_brigadier, jobs_on_brigade, all_results, init_trace>>

\* self._mpi_comm_brigadier.barrier() returns; self._mpi_comm.barrier() begins.
BrigadeBarrier(r) ==
    /\ pc[r] = "barrier_brigade"
    /\ CanLeave(r, _mpi_comm_brigadier[r])
    /\ pc' = [pc EXCEPT ![r] = "barrier_world"]
    /\ coll' = [coll EXCEPT ![r] = Enter(r, <<"barrier">>, WorldComm(r))]
    /\ UNCHANGED <<asmVars, eqVars>>
    /\ UNCHANGED argVars
    /\ UNCHANGED <<_mpi_comm_brigadier, jobs_on_brigade, s, all_results,
                   init_trace, log>>

\* self._mpi_comm.barrier() returns; the process sends s to the root.
WorldBarrier(r) ==
    /\ pc[r] = "barrier_world"
    /\ CanLeave(r, WorldComm(r))
    /\ pc' = [pc EXCEPT ![r] = "gather"]
    /\ coll' = [coll EXCEPT ![r] = Enter(r, <<"gather">>, WorldComm(r))]
    /\ UNCHANGED <<asmVars, eqVars>>
    /\ UNCHANGED argVars
    /\ UNCHANGED <<_mpi_comm_brigadier, jobs_on_brigade, s, all_results,
                   init_trace, log>>

\* gather(s, root=0) returns: at the root once every process has sent, with
\* the list of what each rank sent; elsewhere right away, with None.
Gather(r) ==
    /\ pc[r] = "gather"
    /\ IF mpi_rank(r) = 0
       THEN /\ \A q \in Ranks : pc[q] \in {"gather", "gathered", "exited"}
            /\ all_results' = <<[i \in 1 .. world_size |-> s[i - 1]]>>
       ELSE UNCHANGED all_results
    /\ pc' = [pc EXCEPT ![r] = "gathered"]
    /\ UNCHANGED <<asmVars, eqVars>>
    /\ UNCHANGED argVars
    /\ UNCHANGED <<_mpi_comm_brigadier, jobs_on_brigade, s, coll, init_trace, log>>

\* exit(): the process ends; nothing after it in spectrum runs.
Exit(r) ==
    /\ pc[r] = "gathered"
    /\ pc' = [pc EXCEPT ![r] = "exited"]
    /\ UNCHANGED <<asmVars, eqVars>>
    /\ UNCHANGED argVars
    /\ UNCHANGED <<_mpi_comm_brigadier, jobs_on_brigade, s, coll, all_results,
                   init_trace, log>>

Next ==
    \/ \E r \in Ranks : InitSplit(r)
    \/ \E r \in Ranks : InitNoSplit(r)
    \/ \E r \in Ranks : SplitReturn(r)
    \/ \E r \in Ranks : SpectrumStart(r)
    \/ \E r \in Ranks : Solved(r)
    \/ \E r \in Ranks : BrigadeBarrier(r)
    \/ \E r \in Ranks : WorldBarrier(r)
    \/ \E r \in Ranks : Gather(r)
    \/ \E r \in Ranks : Exit(r)

vars == <<mainVars, asmVars, eqVars>>

Spec == Init /\ [][Next]_vars

\* ------------------------------------------------------------ __init__ alone
\* MassiveSolver(system, root, basis, mpi_comm, brigade_size) with each of
\* mpi_comm, system and root passed or left at None; spectrum is not called.
InitAnyArgs ==
    /\ Topology
    /\ k = << >> /\ w = << >>
    /\ _mpi_comm \in {None, <<"MPI_COMM">>}
    /\ _system \in {None, <<"system">>}
    /\ _root \in {None, <<"root">>}
    /\ failing_job = None
    /\ Fresh
    /\ AsmIdle
    /\ EqIdle

NextInit ==
    \/ \E r \in Ranks : InitSplit(r)
    \/ \E r \in Ranks : InitNoSplit(r)
    \/ \E r \in Ranks : SplitReturn(r)

SpecInit == InitAnyArgs /\ [][NextInit]_vars

\* ------------------------------------------------------------ a failing solve
\* The runs of Spec, and those in which solve raises for one job of the list.
InitFail ==
    /\ Inputs
    /\ _mpi_comm = <<"MPI_COMM">>
    /\ _system = <<"system">>
    /\ _root = <<"root">>
    /\ failing_job \in {None} \cup {<<Jobs[i]>> : i \in 1 .. Len(Jobs)}
    /\ Fresh
    /\ AsmIdle
    /\ EqIdle

SpecFail == InitFail /\ [][Next]_vars

\* ============================================================ _scaffold
\* The workers of one brigade communicator, by their rank in it.
Workers == 0 .. (comm_size - 1)

\* getOwnershipRange of a vector of global size n laid out by PETSc's default
\* over size workers: contiguous blocks, the first n mod size one row longer.
getOwnershipRange(n, size, p) ==
    LET base == n \div size
        extra == n % size
        start == p * base + (IF p < extra THEN p ELSE extra)
    IN  << start, start + base + (IF p < extra THEN 1 ELSE 0) >>

\* if self._rstart <= elem and elem < self._rend   (counting loop)
CountsRow(elem, rs, re) == rs <= elem /\ elem < re

\* if self._rstart <= col_ind[i] and col_ind[i] < self._rend
InDiagBlock_strict(col, rs, re) == rs < col /\ col < re

InDiagBlock(col, rs, re) == rs <= col /\ col < re

\* The counting loop: for i, elem in enumerate(row_ind), from entry i on,
\* acc holding the two arrays (index 1 is row _rstart).
RECURSIVE CountNNZ(_, _, _, _)
CountNNZ(i, rs, re, acc) ==
    IF i > Len(row_ind) THEN acc
    ELSE LET elem == row_ind[i]
         IN  IF CountsRow(elem, rs, re)
             THEN IF InDiagBlock(col_ind[i], rs, re)
                  THEN CountNNZ(i + 1, rs, re,
                                [acc EXCEPT !.diag[elem - rs + 1] = @ + 1])
                  ELSE CountNNZ(i + 1, rs, re,
                                [acc EXCEPT !.offdiag[elem - rs + 1] = @ + 1])
             ELSE CountNNZ(i + 1, rs, re, acc)

\* np.zeros(self._rend - self._rstart)
Zeros(n) == [j \in 1 .. n |-> 0]

\* if self._rstart <= row_coo and row_coo < self._rend   (insertion loop)
InsertsRow_any(row_coo, rs, re) == rs <= row_coo \/ row_coo < re

InsertsRow(row_coo, rs, re) == rs <= row_coo /\ row_coo < re

\* Mat.setValues(row, col, val) with the default insert mode: the value
\* replaces what is stored at <<row, col>>.
setValues_add(M, row, col, val) == [M EXCEPT ![<<row, col>>] = @ + val]

setValues(M, row, col, val) == [M EXCEPT ![<<row, col>>] = val]

Coords == (0 .. (_linsys_size - 1)) \X (0 .. (_linsys_size - 1))

\* What the structures of the job before hold where the solver still
\* refers to them: an entry of that job, which is none of this job's.
earlier_job == 0 - 1

\* _setup_petsc_structs: PETSc.Vec().create, _vector_b.duplicate() and
\* PETSc.Mat().create give the solver new structures; worker p's part of
\* them, the rows rs..re-1, has no entry and the solution no value.
keep_petsc_structs(rs, re) == UNCHANGED <<_mat_X, _vector_b, _vector_x>>

_setup_petsc_structs(rs, re) ==
    /\ _vector_b' = [i \in 0 .. (_linsys_size - 1) |->
                        IF rs <= i /\ i < re THEN 0 ELSE _vector_b[i]]
    /\ _vector_x' = None
    /\ _mat_X' = [c \in Coords |->
                        IF rs <= c[1] /\ c[1] < re THEN 0 ELSE _mat_X[c]]

\* One job, not the first: a system of size n on a brigade of size workers,
\* and the COO triplets handed to the loops; entry i carries the value i.
InitAsm ==
    /\ _linsys_size \in 1 .. MaxN
    /\ comm_size \in 1 .. MaxWorkers
    /\ \E len \in 0 .. MaxCoo :
          /\ row_ind \in [1 .. len -> 0 .. (_linsys_size - 1)]
          /\ col_ind \in [1 .. len -> 0 .. (_linsys_size - 1)]
          /\ dat = [i \in 1 .. len |-> i]
    /\ apc = [p \in Workers |-> "start"]
    /\ _rstart = [p \in Workers |-> 0]
    /\ _rend = [p \in Workers |-> 0]
    /\ diag_nnz = [p \in Workers |-> << >>]
    /\ offdiag_nnz = [p \in Workers |-> << >>]
    /\ ii = [p \in Workers |-> 1]
    /\ _mat_X = [c \in Coords |-> earlier_job]
    /\ inserted = [p \in Workers |-> {}]
    /\ asm_job = <<0, 2>>
    /\ _vector_b = [i \in 0 .. (_linsys_size - 1) |-> earlier_job]
    /\ _vector_x = <<"converged">>
    /\ tol_excess = [p \in Workers |-> None]
    /\ MainIdle
    /\ EqIdle

\* _setup_petsc_structs, the counting loop and setPreallocationNNZ.
Preallocate(p) ==
    /\ apc[p] = "start"
    /\ LET range == getOwnershipRange(_linsys_size, comm_size, p)
           rs == range[1]
           re == range[2]
           nnz == CountNNZ(1, rs, re, [diag |-> Zeros(re - rs), offdiag |-> Zeros(re - rs)])
       IN  /\ _rstart' = [_rstart EXCEPT ![p] = rs]
           /\ _rend' = [_rend EXCEPT ![p] = re]
           /\ diag_nnz' = [diag_nnz EXCEPT ![p] = nnz.diag]
           /\ offdiag_nnz' = [offdiag_nnz EXCEPT ![p] = nnz.offdiag]
           /\ _setup_petsc_structs(rs, re)
    /\ apc' = [apc EXCEPT ![p] = "insert"]
    /\ UNCHANGED cooVars
    /\ UNCHANGED <<ii, inserted, tol_excess>>
    /\ UNCHANGED <<mainVars, eqVars>>

\* One iteration of the insertion loop: for ii, row_coo in enumerate(row_ind).
InsertStep(p) ==
    /\ apc[p] = "insert"
    /\ ii[p] <= Len(row_ind)
    /\ IF InsertsRow(row_ind[ii[p]], _rstart[p], _rend[p])
       THEN /\ _mat_X' = setValues(_mat_X, row_ind[ii[p]], col_ind[ii[p]], dat[ii[p]])
            /\ inserted' = [inserted EXCEPT ![p] = @ \cup {ii[p]}]
       ELSE UNCHANGED <<_mat_X, inserted>>
    /\ ii' = [ii EXCEPT ![p] = @ + 1]
    /\ UNCHANGED cooVars
    /\ UNCHANGED <<apc, _rstart, _rend, diag_nnz, offdiag_nnz,
                   _vector_b, _vector_x, tol_excess>>
    /\ UNCHANGED <<mainVars, eqVars>>

\* The loop is over: _mat_X.assemblyBegin(FINAL).
AssemblyBegin(p) ==
    /\ apc[p] = "insert"
    /\ ii[p] > Len(row_ind)
    /\ apc' = [apc EXCEPT ![p] = "mat_assembly"]
    /\ UNCHANGED cooVars
    /\ UNCHANGED <<_rstart, _rend, diag_nnz, offdiag_nnz, ii, _mat_X, inserted,
                   _vector_b, _vector_x, tol_excess>>
    /\ UNCHANGED <<mainVars, eqVars>>

\* Where a worker is once it has called _mat_X.assemblyBegin / once
\* _mat_X.assemblyEnd has returned / once _vector_b.assemblyBegin is called.
MatAssemblyBegun(p) ==
    apc[p] \in {"mat_assembly", "vec_assembly", "scaffolded", "solved", "checked"}

MatAssembled(p) == apc[p] \in {"vec_assembly", "scaffolded", "solved", "checked"}

VecAssemblyBegun(p) == apc[p] \in {"vec_assembly", "scaffolded", "solved", "checked"}

\* ggce.utils.physics.G0_k_omega(k, w, a, eta, t): the free Green's function,
\* a non-zero number fixed by the grid point.
G0_k_omega(kk, ww) == 1 + kk + ww

\* Vec.setValues(index, value) with the default insert mode: the value
\* replaces what is stored at the index, on whichever worker owns it.
VecSetValues_add(b, index, val) == [b EXCEPT ![index] = @ + val]

VecSetValues(b, index, val) == [b EXCEPT ![index] = val]

\* _mat_X.assemblyEnd(FINAL) returns once every worker has begun assembly;
\* the worker then sets b and calls _vector_b.assemblyBegin().
AssemblyEnd(p) ==
    /\ apc[p] = "mat_assembly"
    /\ \A q \in Workers : MatAssemblyBegun(q)
    /\ LET G0 == G0_k_omega(asm_job[1], asm_job[2])
       IN  _vector_b' = VecSetValues(_vector_b, _linsys_size - 1, G0)
    /\ apc' = [apc EXCEPT ![p] = "vec_assembly"]
    /\ UNCHANGED cooVars
    /\ UNCHANGED <<_rstart, _rend, diag_nnz, offdiag_nnz, ii, _mat_X, inserted,
                   _vector_x, tol_excess>>
    /\ UNCHANGED <<mainVars, eqVars>>

\* _vector_b.assemblyEnd() returns once every worker has begun the vector
\* assembly; _scaffold returns.
VecAssemblyEnd(p) ==
    /\ apc[p] = "vec_assembly"
    /\ \A q \in Workers : VecAssemblyBegun(q)
    /\ apc' = [apc EXCEPT ![p] = "scaffolded"]
    /\ UNCHANGED cooVars
    /\ UNCHANGED <<_rstart, _rend, diag_nnz, offdiag_nnz, ii, _mat_X, inserted,
                   _vector_b, _vector_x, tol_excess>>
    /\ UNCHANGED <<mainVars, eqVars>>

\* The collective linear solve of the brigade leaves the solution in
\* _vector_x, the same on every worker: one that meets the tolerance or one
\* that does not.
LinearSolve(p) ==
    /\ apc[p] = "scaffolded"
    /\ \A q \in Workers : apc[q] \in {"scaffolded", "solved", "checked"}
    /\ IF _vector_x = None
       THEN \E x \in {"converged", "unconverged"} : _vector_x' = <<x>>
       ELSE UNCHANGED _vector_x
    /\ apc' = [apc EXCEPT ![p] = "solved"]
    /\ UNCHANGED cooVars
    /\ UNCHANGED <<_rstart, _rend, diag_nnz, offdiag_nnz, ii, _mat_X, inserted,
                   _vector_b, tol_excess>>
    /\ UNCHANGED <<mainVars, eqVars>>

\* self._vector_b - self._mat_X(self._vector_x), a new vector.
Residual(x) ==
    [i \in 0 .. (_linsys_size - 1) |-> IF x = "converged" THEN 0 ELSE 1]

\* _vector_res_norm - rtol * _vector_b_norm, by its sign.
Excess(x) == IF x = "converged" THEN 0 - 1 ELSE 1

\* _vector_res = self._vector_b.copy(): the vector pc.apply writes the
\* preconditioned residual into.
res_target_alias == "_vector_b"

res_target == "_vector_res"

\* check_conv_manual(pc, rtol).
CheckConv(p) ==
    /\ apc[p] = "solved"
    /\ _vector_b' = IF res_target = "_vector_b"
                    THEN Residual(_vector_x[1]) ELSE _vector_b
    /\ tol_excess' = [tol_excess EXCEPT ![p] = <<Excess(_vector_x[1])>>]
    /\ apc' = [apc EXCEPT ![p] = "checked"]
    /\ UNCHANGED cooVars
    /\ UNCHANGED <<_rstart, _rend, diag_nnz, offdiag_nnz, ii, _mat_X, inserted,
                   _vector_x>>
    /\ UNCHANGED <<mainVars, eqVars>>

NextAsm ==
    \/ \E p \in Workers : Preallocate(p)
    \/ \E p \in Workers : InsertStep(p)
    \/ \E p \in Workers : AssemblyBegin(p)
    \/ \E p \in Workers : AssemblyEnd(p)
    \/ \E p \in Workers : VecAssemblyEnd(p)
    \/ \E p \in Workers : LinearSolve(p)
    \/ \E p \in Workers : CheckConv(p)

SpecAsm == InitAsm /\ [][NextAsm]_vars

\* ------------------------------------------------------------ input from disk
\* The property basis_dir: it has a getter only, which returns None.
basis_dir == None

basis_dir_has_setter == FALSE

\* set_input_dir(dir): self.basis_dir = dir. Assigning to a property that
\* has no setter raises AttributeError.
SetInputDir(p) ==
    /\ apc[p] = "start"
    /\ apc' = [apc EXCEPT ![p] = IF basis_dir_has_setter
                                 THEN "dir_set" ELSE "AttributeError"]
    /\ UNCHANGED cooVars
    /\ UNCHANGED <<_rstart, _rend, diag_nnz, offdiag_nnz, ii, _mat_X, inserted,
                   _vector_b, _vector_x, tol_excess>>
    /\ UNCHANGED <<mainVars, eqVars>>

\* _scaffold_from_disk(k, w, eta, basis_dir): assert self.basis_dir is not
\* None, then the triplets of the file and the loops of _scaffold.
ScaffoldFromDisk(p) ==
    /\ apc[p] \in {"start", "dir_set"}
    /\ IF basis_dir # None
       THEN Preallocate(p)
       ELSE /\ apc' = [apc EXCEPT ![p] = "AssertionError"]
            /\ UNCHANGED cooVars
            /\ UNCHANGED <<_rstart, _rend, diag_nnz, offdiag_nnz, ii, _mat_X,
                           inserted, _vector_b, _vector_x, tol_excess>>
            /\ UNCHANGED <<mainVars, eqVars>>

NextDisk ==
    \/ \E p \in Workers : SetInputDir(p)
    \/ \E p \in Workers : ScaffoldFromDisk(p)

SpecDisk == InitAsm /\ [][NextDisk]_vars

\* ============================================================ the builder
\* A term has an identifier and a coefficient; term.coefficient(k, w, eta)
\* depends on the term and on the grid point.
Term(id, c) == [id |-> id, c |-> c]

coefficient(term, kk, ww) == term.c * (kk + 1) + ww

\* An equation: its index term, with coefficient 1, and its list of terms,
\* the j-th with coefficient j + 1.
Equation(index_id, term_ids) ==
    [index_term |-> Term(index_id, 1),
     _terms_list |-> [j \in 1 .. Len(term_ids) |-> Term(term_ids[j], j + 1)]]

\* The lists of at most MaxTerms identifiers out of 0..n-1.
TermIds(n) == UNION {[1 .. len -> 0 .. (n - 1)] : len \in 0 .. MaxTerms}

\* for n_bosons in range(total_bosons + 1): for eq in equations[n_bosons]
EqList ==
    Flatten([b \in 1 .. Len(equations) |-> equations[b]])

\* eq._terms_list + [eq.index_term]
Terms(eq) == Append(eq._terms_list, eq.index_term)

\* row_dict = dict()
row_dict_kept(prev) == prev

new_row_dict(prev) == << >>

\* try: row_dict[jj] += c   except KeyError: row_dict[jj] = c
\* A dict is the list of its <<key, value>> items in insertion order.
Accumulate_append(rd, jj, c) == Append(rd, <<jj, c>>)

Accumulate_overwrite(rd, jj, c) ==
    IF \E i \in 1 .. Len(rd) : rd[i][1] = jj
    THEN [i \in 1 .. Len(rd) |-> IF rd[i][1] = jj THEN <<jj, c>> ELSE rd[i]]
    ELSE Append(rd, <<jj, c>>)

Accumulate(rd, jj, c) ==
    IF \E i \in 1 .. Len(rd) : rd[i][1] = jj
    THEN [i \in 1 .. Len(rd) |-> IF rd[i][1] = jj THEN <<jj, rd[i][2] + c>> ELSE rd[i]]
    ELSE Append(rd, <<jj, c>>)

\* for term in eq._terms_list + [eq.index_term]
RECURSIVE RowDict(_, _, _, _)
RowDict(terms, kk, ww, rd) ==
    IF terms = << >> THEN rd
    ELSE LET term == Head(terms)
             jj == _basis[term.id]
         IN  RowDict(Tail(terms), kk, ww, Accumulate(rd, jj, coefficient(term, kk, ww)))

\* The loop over the equations, from the lists and the row_dict in acc.
RECURSIVE BuildFrom(_, _, _, _)
BuildFrom(eqs, kk, ww, acc) ==
    IF eqs = << >> THEN acc
    ELSE LET eq == Head(eqs)
             ii_basis == _basis[eq.index_term.id]
             rd == RowDict(Terms(eq), kk, ww, new_row_dict(acc.row_dict))
         IN  BuildFrom(Tail(eqs), kk, ww,
                [rows |-> acc.rows \o [i \in 1 .. Len(rd) |-> ii_basis],
                 cols |-> acc.cols \o [i \in 1 .. Len(rd) |-> rd[i][1]],
                 vals |-> acc.vals \o [i \in 1 .. Len(rd) |-> rd[i][2]],
                 row_dict |-> rd])

\* A system with one equation for each number of bosons 0..total_bosons,
\* each with an index term of its own, the basis giving every index term an
\* index of the linear system; no call has been made.
InitEq ==
    /\ \E total_bosons \in 0 .. MaxBosons :
          LET n == total_bosons + 1
          IN  /\ _basis = [id \in 0 .. (n - 1) |-> n - 1 - id]
              /\ \E ids \in [1 .. n -> TermIds(n)] :
                    equations = [b \in 1 .. n |-> <<Equation(b - 1, ids[b])>>]
    /\ row_dict = << >>
    /\ first_coo = << >>
    /\ AsmIdle
    /\ MainIdle

FirstCall(kw) == {i \in 1 .. Len(first_coo) : first_coo[i][1] = kw}

\* row_ind, col_ind, dat = self._sparse_matrix_from_equations(k, w, eta)
Build(kk, ww) ==
    /\ \E out \in {BuildFrom(EqList, kk, ww,
                    [rows |-> << >>, cols |-> << >>, vals |-> << >>,
                     row_dict |-> row_dict])} :
           /\ row_ind' = out.rows
           /\ col_ind' = out.cols
           /\ dat' = out.vals
           /\ row_dict' = out.row_dict
           /\ first_coo' = IF FirstCall(<<kk, ww>>) = {}
                           THEN Append(first_coo,
                                       <<<<kk, ww>>, <<out.rows, out.cols, out.vals>>>>)
                           ELSE first_coo
    /\ asm_job' = <<kk, ww>>
    /\ UNCHANGED <<equations, _basis>>
    /\ UNCHANGED <<_linsys_size, comm_size, apc, _rstart, _rend, diag_nnz, offdiag_nnz,
                   ii, _mat_X, inserted, _vector_b, _vector_x, tol_excess>>
    /\ UNCHANGED mainVars

NextEq ==
    \/ \E kk \in {0, 1, 2} : \E ww \in {2} : Build(kk, ww)

SpecEq == InitEq /\ [][NextEq]_vars

\* ============================================================ properties
\* Process r is past __init__ / has its job list / has left the solve loop.
Constructed(r) == pc[r] \notin {"init", "Split", "fatal", "NameError"}

Chunked(r) == pc[r] \notin {"init", "Split", "fatal", "NameError", "constructed"}

\* The value solve produced for each job of the full list, in list order.
ExpectedValues == [i \in 1 .. Len(Jobs) |-> G(Jobs[i][1], Jobs[i][2])]

Occurrences(seq, x) == Cardinality({p \in 1 .. Len(seq) : seq[p] = x})

\* u and v agree wherever both are defined.
Compatible(u, v) ==
    \A i \in 1 .. Len(u) : i <= Len(v) => u[i] = v[i]

\* C1: at global rank 0 the gathered results, after dedup and flatten, are
\* in the original job order (k-major, w-minor), so that the reshaped grid
\* has grid[i][j] = the value solve(k[i], w[j], eta) produced.
C1_GridInJobOrder ==
    all_results # None =>
        LET flat == Flatten(Dedup(all_results[1]))
        IN  /\ Values(flat) = ExpectedValues
            /\ Reshape(Values(flat), Len(k), Len(w)) =
                 [i \in 1 .. Len(k) |-> [j \in 1 .. Len(w) |-> G(k[i], w[j])]]

\* C2: after the gather every process goes on to the return statements of
\* spectrum (rank 0 returns the (|k|, |w|) grid, the others return None);
\* no process ends inside spectrum.
C2_SpectrumReturns ==
    \A r \in Ranks : pc[r] # "exited"

\* C3: when the world size is not a multiple of the brigade size, every
\* process stops with the fatal configuration error in split_into_brigades:
\* none calls Split or goes on to scheduling and assembly.
C3_UnevenSplitIsFatal ==
    (_brigade_size # None /\ world_size % _brigade_size[1] # 0) =>
        \A r \in Ranks : pc[r] \in {"init", "fatal"}

\* C4: for a brigade size B dividing the world size W there are W/B
\* brigades, each brigade index is shared by exactly B global ranks, and a
\* process's rank in its brigade communicator is global_rank - index*B, the
\* communicator's group being the B ranks with that index.
C4_BrigadeTopology ==
    (_brigade_size # None /\ world_size % _brigade_size[1] = 0) =>
        LET B == _brigade_size[1]
        IN  /\ brigades * B = world_size
            /\ \A r \in Ranks :
                  /\ mpi_brigade(r) \in 0 .. (brigades - 1)
                  /\ Cardinality({q \in Ranks : mpi_brigade(q) = mpi_brigade(r)}) = B
            /\ \A r \in Ranks : Constructed(r) =>
                  /\ brigade_rank(r) = mpi_rank(r) - mpi_brigade(r) * B
                  /\ brigade_rank(r) \in 0 .. (B - 1)
                  /\ _mpi_comm_brigadier[r].members =
                        {q \in Ranks : mpi_brigade(q) = mpi_brigade(r)}

C4_Witness ==
    /\ _brigade_size # None
    /\ brigade_size > 1 /\ brigades > 1 /\ brigades * brigade_size = world_size
    /\ \A r \in Ranks : Constructed(r)

\* C5: the job lists of brigades 0..C-1 partition the full job list: the
\* concatenation has as many jobs as the full list, every job of the full
\* list occurs in it exactly once, and each brigade keeps list order.
BrigadeJobs(c) == jobs_on_brigade[c * brigade_size]

\* The position of a job in the full list (the k and w values are distinct).
JobPos(job) == CHOOSE i \in 1 .. Len(Jobs) : Jobs[i] = job

C5_JobsPartition ==
    (brigades >= 1 /\ \A r \in Ranks : Chunked(r)) =>
        LET concat == Flatten([c \in 1 .. brigades |-> BrigadeJobs(c - 1)])
        IN  /\ Len(concat) = Len(Jobs)
            /\ \A i \in 1 .. Len(Jobs) : Occurrences(concat, Jobs[i]) = 1
            /\ \A c \in 0 .. (brigades - 1) :
                  \A a \in 1 .. (Len(BrigadeJobs(c)) - 1) :
                      JobPos(BrigadeJobs(c)[a]) < JobPos(BrigadeJobs(c)[a + 1])

\* more brigades than jobs, and a job count that is no multiple of C
C5_Witness ==
    /\ \A r \in Ranks : Chunked(r)
    /\ brigades = 3
    /\ Len(Jobs) \in {2, 4}

\* C6: at the root the dedup keeps one list per brigade, the one sent by
\* global rank n*brigade_size, the lead rank of brigade n, for n in
\* 0..brigades-1; with brigade_size 1 it keeps every gathered list; the
\* flattened sequence has |k|*|w| entries, one per job.
C6_DedupOnePerBrigade ==
    all_results # None =>
        LET kept == Dedup(all_results[1])
            flat == Flatten(kept)
        IN  /\ brigade_size > 1 =>
                  /\ Len(kept) = brigades
                  /\ \A n \in 0 .. (brigades - 1) :
                        /\ kept[n + 1] = s[n * brigade_size]
                        /\ mpi_brigade(n * brigade_size) = n
                        /\ brigade_rank(n * brigade_size) = 0
            /\ brigade_size = 1 => kept = all_results[1]
            /\ Len(flat) = Len(k) * Len(w)
            /\ \A i \in 1 .. Len(Jobs) :
                  Occurrences(flat, solve(Jobs[i][1], Jobs[i][2])) = 1

C6_Witness ==
    /\ all_results # None
    /\ brigade_size > 1 /\ brigades > 1
    /\ Len(Jobs) > brigades

\* C7: the processes of a communicator enter the same collectives in the
\* same order (per-job assemblies and solve on the brigade communicator,
\* then its barrier; barrier and gather on the world communicator), and
\* none blocks forever: whenever no process can take a step, every process
\* has run spectrum to its end (or stopped with the fatal error).
C7_UniformCollectives ==
    /\ \A r, q \in Ranks : Compatible(coll[r].world, coll[q].world)
    /\ \A r \in Ranks : \A q \in _mpi_comm_brigadier[r].members :
          Compatible(coll[r].brigade, coll[q].brigade)
    /\ \A r \in Ranks : pc[r] \in {"barrier_world", "gather", "gathered", "exited"} =>
          \A q \in _mpi_comm_brigadier[r].members : Len(s[q]) = Len(s[r])
    /\ (~ ENABLED Next) => \A r \in Ranks : pc[r] \in {"exited", "fatal"}

\* all done, one brigade with no job at all and one with jobs
C7_Witness ==
    /\ \A r \in Ranks : pc[r] = "exited"
    /\ brigade_size > 1
    /\ \E r, q \in Ranks : Len(s[r]) = 0 /\ Len(s[q]) > 0

\* ------------------------------------------------------------ convergence log
\* C14: for every job it has solved, the lead rank (brigade rank 0) of each
\* brigade - of brigade 0 and of the others - has logged the outcome, a
\* warning when res_norm - rtol*b_norm > 0 and a pass otherwise, once per
\* job and in job order; no other rank of the brigade logs anything.
C14_LoggedOnBrigadeLead ==
    \A r \in Ranks : Chunked(r) =>
        IF brigade_rank(r) = 0
        THEN /\ Len(log[r]) = Len(s[r])
             /\ \A i \in 1 .. Len(log[r]) :
                   LET job == jobs_on_brigade[r][i]
                   IN  log[r][i] = <<job, IF residual_excess(job[1], job[2]) > 0
                                          THEN "warning" ELSE "pass">>
        ELSE log[r] = << >>

\* ------------------------------------------------------------ configuration errors
\* C16: a process whose communicator is missing, or whose system and root
\* are both missing, stops in __init__ with the fatal configuration error
\* having carried out no construction step: it has not called Split, made
\* the results directory, loaded or forced a checkpoint.
C16_HaltsBeforeAnyStep ==
    (_mpi_comm = None \/ MissingBoth) =>
        \A r \in Ranks :
            /\ pc[r] \in {"init", "fatal"}
            /\ init_trace[r] = << >>
            /\ coll[r] = NoCalls

\* ------------------------------------------------------------ a failing solve
FailingBrigade(r) ==
    failing_job # None /\
    \E i \in 1 .. Len(jobs_on_brigade[r]) : failing_job = <<jobs_on_brigade[r][i]>>

\* C17: when solve raises for one job, no value is recorded for that job,
\* and the processes of the other brigades are not stopped by it: once no
\* process can take a further step, each of them has solved all of its jobs
\* and its list of results has reached the root through the gather.
C17_FailureIsContained ==
    failing_job # None =>
        /\ \A r \in Ranks : \A i \in 1 .. Len(s[r]) :
              <<jobs_on_brigade[r][i]>> # failing_job
        /\ (~ ENABLED Next) =>
              \A r \in Ranks : (Chunked(r) /\ ~ FailingBrigade(r)) =>
                  /\ Len(s[r]) = Len(jobs_on_brigade[r])
                  /\ all_results # None
                  /\ all_results[1][r + 1] = s[r]

\* ------------------------------------------------------------ one brigade
\* C18: when the brigade count is 1, every rank's job list is the complete
\* list of jobs, unchanged and in order, which is also what the chunking
\* rule gives for brigade count 1 and brigade index 0.
C18_SingleBrigadeGetsAll ==
    (brigades = 1 /\ \E r \in Ranks : Chunked(r)) =>
        LET all == Jobs
            rule == chunk_jobs(all, 1, 0)
        IN  \A r \in Ranks : Chunked(r) =>
                /\ jobs_on_brigade[r] = all
                /\ jobs_on_brigade[r] = rule

\* every rank of a world of several processes has its list of several jobs
C18_Witness ==
    /\ brigades = 1
    /\ world_size > 1
    /\ Len(Jobs) > 1
    /\ \A r \in Ranks : Chunked(r)

\* C19: when no brigade size is given, on every process that has been
\* constructed the brigade communicator is the original communicator, and
\* brigades = 1, mpi_brigade = 0, brigade_size = world size, brigade_rank =
\* global rank.
C19_NoSizeOneBrigade ==
    _brigade_size = None =>
        \A r \in Ranks : Constructed(r) =>
            /\ _mpi_comm_brigadier[r] = WorldComm(r)
            /\ _mpi_comm_brigadier[r].members = Ranks
            /\ brigades = 1
            /\ mpi_brigade(r) = 0
            /\ brigade_size = world_size
            /\ brigade_rank(r) = mpi_rank(r)
            /\ brigade_rank(r) = r

\* every process of a world of several has been constructed without a size
C19_Witness ==
    /\ _brigade_size = None
    /\ world_size > 1
    /\ \A r \in Ranks : pc[r] = "constructed"

\* ------------------------------------------------------------ _scaffold
Entries == 1 .. Len(row_ind)

RECURSIVE SumSeq(_)
SumSeq(q) == IF q = << >> THEN 0 ELSE Head(q) + SumSeq(Tail(q))

RECURSIVE SumOver(_)
SumOver(S) ==
    IF S = {} THEN 0 ELSE LET i == CHOOSE i \in S : TRUE IN dat[i] + SumOver(S \ {i})

Local(p, x) == _rstart[p] <= x /\ x < _rend[p]

\* C8: after the counting loop of worker p, for each row it owns
\* diag_nnz[row - rstart] is the number of entries of that row whose column
\* is in [rstart, rend) and offdiag_nnz[row - rstart] the number of the
\* others; the two arrays sum to the number of entries with an owned row,
\* and entries with a remote row are counted nowhere.
C8_NnzCounts ==
    \A p \in Workers : apc[p] # "start" =>
        /\ Len(diag_nnz[p]) = _rend[p] - _rstart[p]
        /\ Len(offdiag_nnz[p]) = _rend[p] - _rstart[p]
        /\ \A row \in _rstart[p] .. (_rend[p] - 1) :
              /\ diag_nnz[p][row - _rstart[p] + 1] =
                    Cardinality({i \in Entries : row_ind[i] = row /\ Local(p, col_ind[i])})
              /\ offdiag_nnz[p][row - _rstart[p] + 1] =
                    Cardinality({i \in Entries : row_ind[i] = row /\ ~ Local(p, col_ind[i])})
        /\ SumSeq(diag_nnz[p]) + SumSeq(offdiag_nnz[p]) =
              Cardinality({i \in Entries : Local(p, row_ind[i])})

\* one worker has counted a diagonal-block and an off-diagonal-block entry,
\* another has counted while all entries are in rows it does not own
C8_Witness ==
    \E p, q \in Workers :
        /\ apc[p] # "start" /\ apc[q] # "start"
        /\ SumSeq(diag_nnz[p]) > 0 /\ SumSeq(offdiag_nnz[p]) > 0
        /\ Len(diag_nnz[q]) > 0
        /\ SumSeq(diag_nnz[q]) + SumSeq(offdiag_nnz[q]) = 0

\* C9: a worker calls setValues only for entries whose row is in its own
\* [rstart, rend); the row ranges of the brigade are a non-overlapping cover
\* of 0..linsys_size-1; no entry is inserted by two workers, and once every
\* worker has finished its insertion loop every entry has been inserted by
\* exactly one worker.
C9_SingleWriter ==
    /\ \A p \in Workers : \A i \in inserted[p] : Local(p, row_ind[i])
    /\ \A p, q \in Workers : p # q => inserted[p] \cap inserted[q] = {}
    /\ (\A p \in Workers : apc[p] # "start") =>
          \A row \in 0 .. (_linsys_size - 1) :
              Cardinality({p \in Workers : Local(p, row)}) = 1
    /\ (\A p \in Workers : MatAssemblyBegun(p)) =>
          \A i \in Entries : Cardinality({p \in Workers : i \in inserted[p]}) = 1

C9_Witness ==
    /\ \A p \in Workers : MatAssemblyBegun(p)
    /\ \E p, q \in Workers : p # q /\ inserted[p] # {} /\ inserted[q] # {}

Assembled == comm_size > 0 /\ \A p \in Workers : MatAssembled(p)

At(c) == {i \in Entries : <<row_ind[i], col_ind[i]>> = c}

\* C10 as claimed: after assembly the value stored at each (row, column) is
\* the sum of all input values with that coordinate (zero if there is none).
C10_StoredIsSum ==
    Assembled => \A c \in Coords : _mat_X[c] = SumOver(At(c))

\* C10 amended: after assembly the value stored at each (row, column) is the
\* value of the last input triplet with that coordinate - the input value
\* itself when the coordinate occurs once - and zero when no triplet has it;
\* no value lands in a row other than its own.
C10_StoredIsLast ==
    Assembled =>
        \A c \in Coords :
            _mat_X[c] = IF At(c) = {} THEN 0
                        ELSE dat[CHOOSE i \in At(c) : \A j \in At(c) : j <= i]

\* assembled by more than one worker from a list in which a coordinate occurs twice
C10_Witness ==
    /\ Assembled
    /\ comm_size > 1
    /\ \E c \in Coords : Cardinality(At(c)) > 1

\* C13: once _scaffold has returned on a worker, b holds G0(k, w) at global
\* index linsys_size - 1 and zero at every other index, whatever the number
\* of workers of the brigade and whichever of them owns the last row.
C13_RhsIsG0AtLast ==
    \A p \in Workers : apc[p] \in {"scaffolded", "solved", "checked"} =>
        \A i \in 0 .. (_linsys_size - 1) :
            _vector_b[i] = IF i = _linsys_size - 1
                           THEN G0_k_omega(asm_job[1], asm_job[2]) ELSE 0

\* several workers, the last row owned by the last of them, all back from
\* _scaffold
C13_Witness ==
    /\ comm_size > 1 /\ _linsys_size > 1
    /\ \A p \in Workers : apc[p] = "scaffolded"
    /\ ~ Local(0, _linsys_size - 1)

\* C15: check_conv_manual never ends in an error, whatever the sign of the
\* tolerance excess: the worker goes on; the matrix, b and the solution x
\* are what they were before the call, and of the worker's state only
\* tol_excess is assigned.
C15_CheckIsAdvisory ==
    [][\A p \in Workers : (apc[p] = "solved" /\ apc'[p] # "solved") =>
          /\ apc'[p] = "checked"
          /\ tol_excess'[p] # None
          /\ _mat_X' = _mat_X
          /\ _vector_b' = _vector_b
          /\ _vector_x' = _vector_x
          /\ UNCHANGED <<cooVars, _rstart, _rend, diag_nnz, offdiag_nnz, ii, inserted>>
          /\ \A q \in Workers : q # p => tol_excess'[q] = tol_excess[q]]_vars

\* a worker of a brigade of several is back from the check of a solution
\* whose excess is positive
C15_Witness ==
    \E p \in Workers :
        /\ comm_size > 1
        /\ apc[p] = "checked"
        /\ tol_excess[p] # None
        /\ tol_excess[p][1] > 0

\* C20: on the input-from-disk path - set_input_dir(d), then
\* _scaffold_from_disk(k, w, eta, d) - no worker ends in an error: each goes
\* on to the counting and insertion loops and to assembly as in _scaffold.
C20_DiskPathAssembles ==
    \A p \in Workers : apc[p] \notin {"AttributeError", "AssertionError"}

\* ------------------------------------------------------------ the builder
\* The basis indexes of the terms of an equation.
Cols(eq) == {_basis[Terms(eq)[j].id] : j \in 1 .. Len(Terms(eq))}

\* The number of triplets of the equations before the e-th.
RECURSIVE Offset(_)
Offset(e) == IF e = 1 THEN 0 ELSE Offset(e - 1) + Cardinality(Cols(EqList[e - 1]))

\* The sum of the coefficients of the terms whose basis index is c.
RECURSIVE SumCoef(_, _, _, _)
SumCoef(terms, c, kk, ww) ==
    IF terms = << >> THEN 0
    ELSE (IF _basis[Head(terms).id] = c THEN coefficient(Head(terms), kk, ww) ELSE 0)
         + SumCoef(Tail(terms), c, kk, ww)

\* C11: in the lists a call returns, the triplets of each equation all carry
\* the row of the equation's index term, their columns are pairwise distinct
\* and are the basis indexes of its terms, and the value for column c is the
\* sum of coefficient(k, w, eta) over the terms of the equation (term list
\* and index term) whose basis index is c; the three lists have one length.
C11_RowsAreSummed ==
    asm_job # << >> =>
        /\ Len(row_ind) = Len(col_ind)
        /\ Len(col_ind) = Len(dat)
        /\ Len(dat) = Offset(Len(EqList) + 1)
        /\ \A e \in 1 .. Len(EqList) :
              LET eq == EqList[e]
                  seg == (Offset(e) + 1) .. Offset(e + 1)
              IN  /\ \A i \in seg : row_ind[i] = _basis[eq.index_term.id]
                  /\ \A i, j \in seg : i # j => col_ind[i] # col_ind[j]
                  /\ {col_ind[i] : i \in seg} = Cols(eq)
                  /\ \A i \in seg :
                        dat[i] = SumCoef(Terms(eq), col_ind[i], asm_job[1], asm_job[2])

\* lists built from two equations, one of which has two terms of one column
C11_Witness ==
    /\ asm_job # << >>
    /\ Len(EqList) > 1
    /\ \E e \in 1 .. Len(EqList) : Cardinality(Cols(EqList[e])) < Len(Terms(EqList[e]))
    /\ \E e \in 1 .. Len(EqList) : Cardinality(Cols(EqList[e])) > 1

\* C12: a call leaves the equations and the basis as they were, and returns
\* the row, column and value lists, in the same order, that the first call
\* for the same (k, w) returned, whatever calls were made in between.
C12_Repeatable ==
    [][/\ equations' = equations
       /\ _basis' = _basis
       /\ \A i \in 1 .. Len(first_coo) :
             first_coo[i][1] = asm_job' =>
                 <<row_ind', col_ind', dat'>> = first_coo[i][2]]_vars

\* the point called first has been called again after a call for another
\* point
C12_Witness ==
    /\ Len(first_coo) > 1
    /\ first_coo[1][1] = asm_job
    /\ Len(dat) > 1

\* ------------------------------------------------------------ barriers
\* C21: a process enters the world barrier only from the brigade barrier
\* and the gather only from the world barrier; it enters the brigade barrier
\* and the gather only with a result for every job of its list; once it is
\* in the first barrier it calls solve no more and its results stay as they
\* are.
C21_BarrierOrder ==
    [][\A r \in Ranks :
          /\ (pc'[r] = "barrier_brigade" /\ pc[r] # "barrier_brigade") =>
                Len(s'[r]) = Len(jobs_on_brigade'[r])
          /\ (pc'[r] = "barrier_world" /\ pc[r] # "barrier_world") =>
                pc[r] = "barrier_brigade"
          /\ (pc'[r] = "gather" /\ pc[r] # "gather") =>
                /\ pc[r] = "barrier_world"
                /\ Len(s[r]) = Len(jobs_on_brigade[r])
          /\ pc[r] \in {"barrier_brigade", "barrier_world", "gather", "gathered", "exited"} =>
                /\ pc'[r] # "solve"
                /\ s'[r] = s[r]]_vars

\* a process of one of several brigades is in the gather with results
C21_Witness ==
    \E r \in Ranks :
        /\ pc[r] = "gather"
        /\ Len(s[r]) > 0
        /\ brigades > 1 /\ brigade_size > 1

\* ------------------------------------------------------------ copies
\* C22: the list of jobs a process gets from get_jobs_on_this_brigade is,
\* entry by entry, the list every process of its brigade that asked before
\* it has got, a list once got is not changed, and the lists the root
\* gathers from two processes of one brigade are equal.
C22_SameListInBrigade ==
    [][\A r, q \in Ranks :
          (r # q /\ mpi_brigade(r) = mpi_brigade(q)) =>
              /\ (pc[r] = "constructed" /\ pc'[r] # "constructed" /\ Chunked(q)) =>
                    /\ jobs_on_brigade'[r] = jobs_on_brigade[q]
                    /\ jobs_on_brigade'[q] = jobs_on_brigade[q]
              /\ (all_results = None /\ all_results' # None) =>
                    all_results'[1][r + 1] = all_results'[1][q + 1]]_vars

\* gathered from several brigades of several processes, each with jobs
C22_Witness ==
    /\ all_results # None
    /\ brigades > 1 /\ brigade_size > 1
    /\ \A r \in Ranks : Len(s[r]) > 0

\* ------------------------------------------------------------ the job list
\* C24: the job list spectrum builds (the list a process of a single
\* brigade gets whole) has |k|*|w| entries, job number i (from 0) being
\* (k[i div |w|], w[i mod |w|]); reshaped to (|k|, |w|) it has the job of
\* k[i] and w[j] at [i][j].
C24_JobsKMajor ==
    [][\A r \in Ranks :
          (pc[r] = "constructed" /\ pc'[r] # "constructed" /\ brigades = 1) =>
              LET jobs == jobs_on_brigade'[r]
                  nk == Len(k)
                  nw == Len(w)
              IN  /\ Len(jobs) = nk * nw
                  /\ \A i \in 0 .. (nk * nw - 1) :
                        jobs[i + 1] = << k[(i \div nw) + 1], w[(i % nw) + 1] >>
                  /\ Reshape(jobs, nk, nw) =
                        [i \in 1 .. nk |-> [j \in 1 .. nw |-> << k[i], w[j] >>]]]_vars

\* the list of a grid of several k and several w
C24_Witness ==
    /\ Len(k) > 1 /\ Len(w) > 1
    /\ brigades = 1
    /\ \E r \in Ranks : Chunked(r)

\* ------------------------------------------------------------ brigade index
\* C26: on every process that has been constructed the brigade index is
\* one of 0..brigades-1, and brigades * brigade_size is the world size.
C26_BrigadeIndexValid ==
    \A r \in Ranks : Constructed(r) =>
        /\ 0 <= mpi_brigade(r)
        /\ mpi_brigade(r) < brigades
        /\ brigades * brigade_size = world_size

ScaffoldOrder ==
    { <<"start", "insert">>, <<"insert", "mat_assembly">>,
      <<"mat_assembly", "vec_assembly">>, <<"vec_assembly", "scaffolded">>,
      <<"scaffolded", "solved">>, <<"solved", "checked">> }

\* C23: a worker goes through _scaffold in the order new structures and
\* preallocation counts, insertion, matrix assembly, right-hand side, vector
\* assembly. It puts an entry in the matrix only in its insertion loop,
\* with its counts supplied and its assemblyBegin not yet called; the
\* matrix changes at no other step than the creation and the insertions and
\* the vector b at no other step than the creation and the setting of the
\* right-hand side. Once every worker is through _scaffold, no entry of the
\* job before is in the matrix or in b, and until the solve none in x.
C23_ScaffoldOrder ==
    [][/\ \A p \in Workers :
             (apc'[p] # apc[p] \/ ii'[p] # ii[p]) =>
                 /\ apc'[p] # apc[p] => <<apc[p], apc'[p]>> \in ScaffoldOrder
                 /\ inserted'[p] # inserted[p] =>
                       /\ apc[p] = "insert" /\ apc'[p] = "insert"
                       /\ Len(diag_nnz[p]) = _rend[p] - _rstart[p]
                       /\ _mat_X' # _mat_X
                 /\ _mat_X' # _mat_X => apc[p] \in {"start", "insert"}
                 /\ _vector_b' # _vector_b => apc[p] \in {"start", "mat_assembly"}
                 /\ apc[p] = "start" =>
                       \A c \in Coords : Local(p, c[1])' => _mat_X'[c] = 0
       /\ (\A q \in Workers : MatAssembled(q)') =>
             \A c \in Coords : _mat_X'[c] # earlier_job
       /\ (\A q \in Workers : apc'[q] \in {"scaffolded", "solved", "checked"}) =>
             /\ \A i \in 0 .. (_linsys_size - 1) : _vector_b'[i] # earlier_job
             /\ (\A q \in Workers : apc'[q] = "scaffolded") => _vector_x' = None
      ]_vars

\* several workers are through _scaffold with entries inserted, and the
\* matrix has coordinates the job has no triplet for
C23_Witness ==
    /\ comm_size > 1
    /\ \A q \in Workers : apc[q] = "scaffolded"
    /\ \E q \in Workers : inserted[q] # {}
    /\ \E c \in Coords : \A i \in 1 .. Len(row_ind) : <<row_ind[i], col_ind[i]>> # c
====
